---- MODULE Spec2Model ----
(***************************************************************************)
(* Content-based recommender (content_based_filtering.py), its offline     *)
(* evaluation harness (evaluation_content.py) and the category filter and  *)
(* call site of the Streamlit page (app.py).                               *)
(*                                                                         *)
(* Text is a sequence of one-character strings.  A DataFrame is a sequence *)
(* of rows; every row carries its pandas index label in the field "index"  *)
(* (0-based, as in pandas), while its position is its place in the         *)
(* sequence (position p of pandas is element p + 1 here).                  *)
(***************************************************************************)
EXTENDS Integers, Sequences, FiniteSets, TLC

VARIABLES data, selected_category, search_history, call, result

vars == <<data, selected_category, search_history, call, result>>

(***************************************************************************)
(* Bounds of the model.                                                    *)
(***************************************************************************)
MaxItems == 3
MaxTopN == 3
MaxHistory == 2

(***************************************************************************)
(* Python values and text helpers.                                         *)
(***************************************************************************)
NaN == "nan"

PyStr(s) == [type |-> "str", val |-> s]
PyNone == [type |-> "NoneType", val |-> <<>>]
PyInt5 == [type |-> "int", val |-> <<"5">>]

\* bool(v) of Python: empty text, None and 0 are false.
truthy(v) ==
    CASE v.type = "str" -> v.val # <<>>
      [] v.type = "NoneType" -> FALSE
      [] OTHER -> v.val # <<"0">>

lower_char(c) ==
    CASE c = "A" -> "a"
      [] c = "B" -> "b"
      [] OTHER -> c

\* str.lower()
lower(s) == [i \in 1..Len(s) |-> lower_char(s[i])]

\* str.strip(): drops leading and trailing whitespace.
RECURSIVE lstrip(_)
lstrip(s) == IF s # <<>> /\ Head(s) = " " THEN lstrip(Tail(s)) ELSE s

RECURSIVE rstrip(_)
rstrip(s) ==
    IF s # <<>> /\ s[Len(s)] = " " THEN rstrip(SubSeq(s, 1, Len(s) - 1)) ELSE s

strip(s) == rstrip(lstrip(s))

\* A pattern re.compile rejects: an opening parenthesis that is never closed.
re_error(pat) == \E i \in 1..Len(pat) : pat[i] = "("

\* re.search(pat, s) for patterns of literal characters and ".", which
\* matches any character.
re_search(pat, s) ==
    \E off \in 0..(Len(s) - Len(pat)) :
        \A i \in 1..Len(pat) : pat[i] = "." \/ pat[i] = s[off + i]

\* Literal substring test, used to state what a search is expected to find.
IsSubstring(sub, s) ==
    \E off \in 0..(Len(s) - Len(sub)) :
        \A i \in 1..Len(sub) : sub[i] = s[off + i]

\* Elementwise == of pandas: a missing cell equals nothing, itself included.
cell_eq(a, b) == a # NaN /\ b # NaN /\ a = b

RECURSIVE Sum(_, _)
Sum(f, S) ==
    IF S = {} THEN 0
    ELSE LET x == CHOOSE y \in S : TRUE IN f[x] + Sum(f, S \ {x})

Min(a, b) == IF a <= b THEN a ELSE b
Max(a, b) == IF a >= b THEN a ELSE b

\* s[start:stop] of Python for start >= 0: a negative stop counts from the end.
PySlice(s, start, stop) ==
    LET n == Len(s)
        e == IF stop < 0 THEN Max(stop + n, 0) ELSE Min(stop, n)
    IN  IF start >= e THEN <<>> ELSE SubSeq(s, start + 1, e)

(***************************************************************************)
(* The catalog.                                                            *)
(***************************************************************************)
\* CATEGORY_MAPPING for the raw categories of the model: "skin care" holds
\* the keyword "skin" of Beauty, "yoga mat" the keyword "yoga" of Sports &
\* Fitness, and no keyword of a group listed before it.
CATEGORY_MAPPING ==
    [c \in {"skin care", "yoga mat"} |->
        IF c = "skin care" THEN "Beauty" ELSE "Sports & Fitness"]

\* map_to_main_category: a non-text or unrecognised category is "Others".
map_to_main_category(raw_category) ==
    IF raw_category \in DOMAIN CATEGORY_MAPPING
    THEN CATEGORY_MAPPING[raw_category]
    ELSE "Others"

NoTags == <<NaN>>

Product(id, name, brand, tags, category) ==
    [ID |-> id, Name |-> name, Brand |-> brand, Tags |-> tags,
     Category |-> category, MainCategory |-> map_to_main_category(category),
     Rating |-> id, ReviewCount |-> 10 * id, ImageURL |-> "http"]

Products ==
    { Product(1, <<"a", "b">>, "acme", <<"face", "cream">>, "skin care"),
      Product(2, <<"a">>, "acme", <<"face", "cream">>, "yoga mat"),
      Product(3, <<"a">>, "skin care", <<"cream">>, "yoga mat"),
      Product(4, <<"B", ".">>, NaN, NoTags, NaN),
      Product(5, <<"b">>, "acme", <<"the">>, "yoga mat") }

\* pd.read_csv gives the rows the labels 0, 1, 2, ... in file order.
read_csv(rows) ==
    [i \in 1..Len(rows) |->
        [index |-> i - 1, ID |-> rows[i].ID, Name |-> rows[i].Name,
         Brand |-> rows[i].Brand, Tags |-> rows[i].Tags,
         Category |-> rows[i].Category, MainCategory |-> rows[i].MainCategory,
         Rating |-> rows[i].Rating, ReviewCount |-> rows[i].ReviewCount,
         ImageURL |-> rows[i].ImageURL]]

Catalogs ==
    UNION { { read_csv(rows) :
                rows \in { r \in [1..n -> Products] :
                             \A i, j \in 1..n : i # j => r[i] # r[j] } } :
            n \in 1..MaxItems }

(***************************************************************************)
(* TF-IDF on Tags and cosine similarity (scikit-learn).  Weights are kept  *)
(* as integers, ten times the smoothed idf rounded; a similarity is kept   *)
(* as the dot product and the two squared norms it is divided by.          *)
(***************************************************************************)
ENGLISH_STOP_WORDS == {"the"}

\* Series.fillna(""): a missing cell becomes the empty text.
fillna(tags) == IF tags = NoTags THEN <<>> ELSE tags

\* The analyzer of TfidfVectorizer(stop_words="english"): the words of a
\* document that are not stop words.
analyzer(doc) == SelectSeq(doc, LAMBDA w : w \notin ENGLISH_STOP_WORDS)

words(doc) == { doc[i] : i \in 1..Len(doc) }

vocabulary(df) == UNION { words(analyzer(fillna(df[i].Tags))) : i \in 1..Len(df) }

tf(w, doc) == Cardinality({ i \in 1..Len(doc) : doc[i] = w })

document_frequency(w, df) ==
    Cardinality({ i \in 1..Len(df) : w \in words(analyzer(fillna(df[i].Tags))) })

\* round(10 * ln(a / b)) for 1 <= b <= a <= 7.
LN10 ==
    << <<0>>,
       <<7, 0>>,
       <<11, 4, 0>>,
       <<14, 7, 3, 0>>,
       <<16, 9, 5, 2, 0>>,
       <<18, 11, 7, 4, 2, 0>>,
       <<19, 13, 8, 6, 3, 2, 0>> >>

\* smooth_idf: idf(w) = ln((1 + n) / (1 + df(w))) + 1, times ten.
idf(w, df) == LN10[1 + Len(df)][1 + document_frequency(w, df)] + 10

\* TfidfVectorizer.fit_transform: raises ValueError on an empty vocabulary.
fit_transform_raises(df) == vocabulary(df) = {}

tfidf_matrix(df) ==
    [i \in 1..Len(df) |->
        [w \in vocabulary(df) |->
            tf(w, analyzer(fillna(df[i].Tags))) * idf(w, df)]]

dot(u, v) == Sum([w \in DOMAIN u |-> u[w] * v[w]], DOMAIN u)

\* Squared norm of a row; a zero norm is replaced by 1 before dividing.
norm2(u) == LET s == dot(u, u) IN IF s = 0 THEN 1 ELSE s

\* cosine_similarity(X, X)[i][j] = dot / sqrt(ni * nj).
cosine_similarity(X) ==
    [i \in 1..Len(X) |->
        [j \in 1..Len(X) |->
            [dot |-> dot(X[i], X[j]), ni |-> norm2(X[i]), nj |-> norm2(X[j])]]]

\* Order of two similarities taken from the same row of the matrix (same ni).
score_gt(a, b) == a.dot * a.dot * b.nj > b.dot * b.dot * a.nj
score_eq(a, b) == a.dot * a.dot * b.nj = b.dot * b.dot * a.nj
score_zero(a) == a.dot = 0

\* list(enumerate(row)): pairs of 0-based position and score.
enumerate(row) == [i \in 1..Len(row) |-> [idx |-> i - 1, score |-> row[i]]]

\* sorted(pairs, key=score, reverse=True): stable, so equal scores keep their
\* original order.  Each element goes after everything not smaller than it.
insert_desc(sorted, e) ==
    LET k == Cardinality({ i \in 1..Len(sorted) : ~score_gt(e.score, sorted[i].score) })
    IN  SubSeq(sorted, 1, k) \o <<e>> \o SubSeq(sorted, k + 1, Len(sorted))

RECURSIVE sorted_desc(_)
sorted_desc(pairs) ==
    IF pairs = <<>> THEN <<>>
    ELSE insert_desc(sorted_desc(SubSeq(pairs, 1, Len(pairs) - 1)), pairs[Len(pairs)])

display(row) ==
    [Name |-> row.Name, Brand |-> row.Brand, Rating |-> row.Rating,
     ReviewCount |-> row.ReviewCount, ImageURL |-> row.ImageURL]

(***************************************************************************)
(* content_based_recommendation(data, item_name, top_n).  The outcome      *)
(* records what was returned or raised and, for reference, the step that   *)
(* ended the call, the label item_index and the positions selected.        *)
(***************************************************************************)
Outcome(kind, exc, step, rows, item_index, top_similar_indices) ==
    [kind |-> kind, exc |-> exc, step |-> step, rows |-> rows,
     item_index |-> item_index, top_similar_indices |-> top_similar_indices]

EmptyFrame(step) == Outcome("DataFrame", "", step, <<>>, -1, <<>>)
Raise(exc, step, item_index) == Outcome("raise", exc, step, <<>>, item_index, <<>>)

normalize(item_name) == strip(lower(item_name.val))

\* Series.str.contains(pat, na=False): a regular-expression search.
str_contains(name, pat) == re_search(pat, name)

matches(df, item_name) ==
    SelectSeq(df, LAMBDA row : str_contains(lower(row.Name), normalize(item_name)))

similarity_scores(df, item_index) ==
    sorted_desc(enumerate(cosine_similarity(tfidf_matrix(df))[item_index + 1]))

top_similar_indices(df, item_index, top_n) ==
    LET top == PySlice(similarity_scores(df, item_index), 1, top_n + 1)
    IN  [k \in 1..Len(top) |-> top[k].idx]

content_based_recommendation(df, item_name, top_n) ==
    IF ~truthy(item_name) \/ item_name.type # "str"
    THEN EmptyFrame("validation")
    ELSE IF re_error(normalize(item_name))
    THEN Raise("re.error", "match", -1)
    ELSE IF matches(df, item_name) = <<>>
    THEN EmptyFrame("no_match")
    ELSE LET item_index == matches(df, item_name)[1].index IN
         IF fit_transform_raises(df)
         THEN Raise("ValueError", "vectorizer", item_index)
         ELSE IF item_index >= Len(df)
         THEN Raise("IndexError", "lookup", item_index)
         ELSE LET top == top_similar_indices(df, item_index, top_n) IN
              Outcome("DataFrame", "", "done",
                      [k \in 1..Len(top) |-> display(df[top[k] + 1])],
                      item_index, top)

(***************************************************************************)
(* evaluate_content_based_metrics(data, item_name, top_n).  A float is     *)
(* kept as a fraction with a positive denominator.                         *)
(***************************************************************************)
Frac(n, d) == IF d < 0 THEN [num |-> -n, den |-> -d] ELSE [num |-> n, den |-> d]

\* A lookup by containment instead of equality.
item_matches_contains(df, item_name) ==
    SelectSeq(df, LAMBDA row :
        item_name.type = "str" /\ IsSubstring(item_name.val, row.Name))

item_matches(df, item_name) ==
    SelectSeq(df, LAMBDA row : item_name.type = "str" /\ row.Name = item_name.val)

\* bool() of a Category cell: only the empty text is false (a missing cell
\* is the float nan, which is true).
category_truthy(c) == c # ""

\* data[data[column] == value]['Name'].values
names_by_category(df, value) ==
    { df[i].Name : i \in { j \in 1..Len(df) : cell_eq(df[j].Category, value) } }

names_by_brand(df, value) ==
    { df[i].Name : i \in { j \in 1..Len(df) : cell_eq(df[j].Brand, value) } }

relevant_items(df, item_category) ==
    (IF category_truthy(item_category)
     THEN names_by_category(df, item_category)
     ELSE {})
    \cup names_by_brand(df, item_category)

total_relevant(df, item_category) ==
    Cardinality(relevant_items(df, item_category)) - 1

recommend_names(recs) == { recs.rows[k].Name : k \in 1..Len(recs.rows) }

true_positives(df, item_category, recs) ==
    Cardinality(recommend_names(recs) \cap relevant_items(df, item_category))

precision(tp, top_n) == Frac(tp, top_n)

recall(tp, total) == IF total > 0 THEN Frac(tp, total) ELSE Frac(0, 1)

\* p + r > 0 and p * r = 0 for fractions with positive denominators.
sum_positive(p, r) == p.num * r.den + r.num * p.den > 0
product_zero(p, r) == p.num * r.num = 0

\* f1 = 2 * (p * r) / (p * r) if (p + r) > 0 else 0
f1_raises(p, r) == sum_positive(p, r) /\ product_zero(p, r)
f1(p, r) == IF sum_positive(p, r) THEN Frac(2, 1) ELSE Frac(0, 1)

not_found == [kind |-> "True"]
no_recommendations(recs) == [kind |-> "None", recs |-> recs]
raised(exc, recs) == [kind |-> "raise", exc |-> exc, recs |-> recs]

metrics(df, item_category, recs, top_n) ==
    LET tp == true_positives(df, item_category, recs)
        total == total_relevant(df, item_category)
    IN  IF top_n = 0 THEN raised("ZeroDivisionError", recs)
        ELSE LET p == precision(tp, top_n)
                 r == recall(tp, total)
             IN  IF f1_raises(p, r) THEN raised("ZeroDivisionError", recs)
                 ELSE [kind |-> "dict", precision |-> p, recall |-> r,
                       f1 |-> f1(p, r), recs |-> recs]

evaluate_content_based_metrics(df, item_name, top_n) ==
    IF item_matches(df, item_name) = <<>> THEN not_found
    ELSE LET item_category == item_matches(df, item_name)[1].Category
             recs == content_based_recommendation(df, item_name, top_n)
         IN  IF recs.kind = "raise" THEN raised(recs.exc, recs)
             ELSE IF recs.rows = <<>> THEN no_recommendations(recs)
             ELSE metrics(df, item_category, recs, top_n)

(***************************************************************************)
(* The page (app.py): the category filter and the "Similar Products" call. *)
(***************************************************************************)
AppTopN == 6
MaxUser == 2

filter_by_category(df, selected) ==
    IF selected = "All" THEN df
    ELSE SelectSeq(df, LAMBDA row : row.MainCategory = selected)

categories(df) == {"All"} \cup { df[i].MainCategory : i \in 1..Len(df) }

by_id(df, user_id) == SelectSeq(df, LAMBDA row : row.ID = user_id)

(***************************************************************************)
(* Inputs.                                                                 *)
(***************************************************************************)
TopNs == {-2} \cup (0..MaxTopN)

Queries ==
    { PyStr(<<"a">>), PyStr(<<" ", "A">>), PyStr(<<"b">>), PyStr(<<".">>),
      PyStr(<<"(">>), PyStr(<<>>), PyStr(<<" ">>), PyStr(<<"c">>),
      PyNone, PyInt5 }

EvalNames ==
    { PyStr(<<"a">>), PyStr(<<"a", "b">>), PyStr(<<"b">>),
      PyStr(<<"B", ".">>), PyStr(<<"c">>) }

Searches == { <<>>, <<"a">> }

(***************************************************************************)
(* The state machine.  Three programs use the catalog: the ranker's own    *)
(* script and the evaluation script, which make one call and exit, and the *)
(* page, which is rerun on every interaction of its session.  call records *)
(* the last operation and, when it ran the ranker, the frame, query and    *)
(* top_n the ranker was given.                                             *)
(***************************************************************************)
Call(op, ranker, df, item_name, top_n) ==
    [op |-> op, ranker |-> ranker, df |-> df, item_name |-> item_name,
     top_n |-> top_n]

NoCall(op) == Call(op, FALSE, <<>>, PyNone, 0)
NoResult == [kind |-> "none"]

Init ==
    /\ data \in Catalogs
    /\ selected_category = "All"
    /\ search_history = <<>>
    /\ call = NoCall("none")
    /\ result = NoResult

Started == call.op = "none"
InSession == call.op \in {"none", "top_rated", "similar_products"}

\* content_based_recommendation called on the whole catalog.
Recommend(item_name, top_n) ==
    /\ Started
    /\ call' = Call("recommend", TRUE, data, item_name, top_n)
    /\ result' = content_based_recommendation(data, item_name, top_n)
    /\ UNCHANGED <<data, selected_category, search_history>>

\* evaluate_content_based_metrics called on the whole catalog.
Evaluate(item_name, top_n) ==
    /\ Started
    /\ call' = Call("evaluate", item_matches(data, item_name) # <<>>,
                    data, item_name, top_n)
    /\ result' = evaluate_content_based_metrics(data, item_name, top_n)
    /\ UNCHANGED <<data, selected_category, search_history>>

\* A rerun of the page after a category is picked, the button not pressed:
\* the top rated products are shown.
SelectCategory(c) ==
    /\ InSession
    /\ c \in categories(data)
    /\ selected_category' = c
    /\ call' = NoCall("top_rated")
    /\ result' = NoResult
    /\ UNCHANGED <<data, search_history>>

\* A rerun of the page with "Get Recommendations" pressed.
GetRecommendations(user_id, product_search) ==
    LET searched == strip(product_search) # <<>>
        filtered_data == filter_by_category(data, selected_category)
    IN  /\ InSession
        /\ searched => Len(search_history) < MaxHistory
        /\ search_history' =
              IF searched THEN Append(search_history, product_search)
              ELSE search_history
        /\ IF user_id = 0
           THEN /\ call' = NoCall("top_rated")
                /\ result' = NoResult
           ELSE IF ~searched /\ by_id(filtered_data, user_id) = <<>>
           THEN /\ call' = NoCall("similar_products")
                /\ result' = Raise("IndexError", "base_product", -1)
           ELSE LET base_product ==
                        IF searched THEN product_search
                        ELSE by_id(filtered_data, user_id)[1].Name
                IN  /\ call' = Call("similar_products", TRUE, filtered_data,
                                    PyStr(base_product), AppTopN)
                    /\ result' = content_based_recommendation(
                                     filtered_data, PyStr(base_product), AppTopN)
        /\ UNCHANGED <<data, selected_category>>

Next ==
    \/ \E q \in Queries, n \in TopNs : Recommend(q, n)
    \/ \E q \in EvalNames, n \in TopNs : Evaluate(q, n)
    \/ \E c \in {"All", "Beauty", "Sports & Fitness", "Others"} : SelectCategory(c)
    \/ \E u \in 0..MaxUser, s \in Searches : GetRecommendations(u, s)

Spec == Init /\ [][Next]_vars

(***************************************************************************)
(* Properties.  Recs is the outcome of the ranker in the last operation;   *)
(* the anchor and the ranking are restated here from the catalog alone.    *)
(***************************************************************************)
Recs == IF call.op = "evaluate" THEN result.recs ELSE result

Frame == call.df
Query == call.item_name

QueryText == Query.type = "str" /\ Query.val # <<>>

\* The normalized query has no character with a special meaning in a pattern.
LiteralQuery ==
    \A i \in 1..Len(Query.val) : Query.val[i] \notin {".", "("}

NameContains(i) == IsSubstring(normalize(Query), lower(Frame[i].Name))

HasMatch == \E i \in 1..Len(Frame) : NameContains(i)

\* Position of the first row, in catalog order, whose name contains the query.
AnchorPos ==
    CHOOSE i \in 1..Len(Frame) :
        NameContains(i) /\ \A j \in 1..(i - 1) : ~NameContains(j)

AnchorResolved == call.ranker /\ QueryText /\ HasMatch

Returned == Recs.kind = "DataFrame"

RowsOf(out) == { out.rows[k] : k \in 1..Len(out.rows) }

\* Similarities of every row to the row at position a.
SimTo(a) == cosine_similarity(tfidf_matrix(Frame))[a]

\* 0-based place of row i when rows are ordered by similarity to row a,
\* descending, equal scores in catalog order.
Place(a, i) ==
    Cardinality({ j \in 1..Len(Frame) :
        \/ score_gt(SimTo(a)[j], SimTo(a)[i])
        \/ score_eq(SimTo(a)[j], SimTo(a)[i]) /\ j < i })

AllTagsEmpty ==
    \A i \in 1..Len(Frame) : analyzer(fillna(Frame[i].Tags)) = <<>>

\* C1: a call on the whole catalog with a non-empty query that matches a
\* name never returns the anchor, the first matching row, among its rows.
C1_AnchorNeverReturned ==
    (call.op = "recommend" /\ AnchorResolved /\ LiteralQuery /\ Returned)
        => display(Frame[AnchorPos]) \notin RowsOf(Recs)

\* C2: whenever the ranker looks up the anchor's row of the similarity
\* matrix, the lookup stays inside the matrix and the row read, at position
\* item_index, is the row of the frame labelled item_index (the anchor).
C2_RowReadIsAnchorRow ==
    (call.ranker /\ Recs.step \in {"lookup", "done"})
        => /\ Recs.kind # "raise"
           /\ Frame[Recs.item_index + 1].index = Recs.item_index

\* C3: when an anchor is resolved and top_n >= 0 the ranker returns exactly
\* min(top_n, n - 1) rows, the k-th being the row in place k of the order by
\* similarity to the anchor (descending, ties in catalog order), place 0
\* being skipped.
C3_RankedTopN ==
    (AnchorResolved /\ LiteralQuery /\ call.top_n >= 0)
        => /\ Returned
           /\ Len(Recs.rows) = Min(call.top_n, Len(Frame) - 1)
           /\ \A k \in 1..Len(Recs.rows) :
                \E i \in 1..Len(Frame) :
                    /\ Place(AnchorPos, i) = k
                    /\ Recs.rows[k] = display(Frame[i])

\* The statement of C3 restricted to calls on the whole catalog with at
\* least one tag word left after stop-word removal.
RankedTopNOnWholeCatalog ==
    (call.op \in {"recommend", "evaluate"} /\ ~AllTagsEmpty) => C3_RankedTopN

\* C4: the anchor is the first row whose lower-cased name contains the
\* normalized query literally; without such a row, or with an empty or
\* non-text query, the ranker returns an empty frame and raises nothing.
C4_LiteralFirstMatch ==
    call.ranker =>
        IF QueryText /\ HasMatch
        THEN /\ Recs.step \in {"vectorizer", "lookup", "done"}
             /\ Recs.item_index = Frame[AnchorPos].index
        ELSE Returned /\ Recs.rows = <<>>

\* C5: the harness returns the not-found signal exactly when no row of the
\* catalog has the query item's name; it then neither raises nor returns a
\* score record, and no other outcome of the harness is that signal.
C5_NotFoundSignal ==
    call.op = "evaluate" =>
        ((\A i \in 1..Len(data) : data[i].Name # Query.val)
            <=> result = [kind |-> "True"])

\* Witness of C5: an evaluation of a name absent from the catalog, which some
\* name of the catalog nevertheless contains, has returned the signal.
C5_Witness ==
    /\ call.op = "evaluate"
    /\ \A i \in 1..Len(data) : data[i].Name # Query.val
    /\ \E i \in 1..Len(data) : IsSubstring(Query.val, data[i].Name)
    /\ result.kind = "True"

\* C6: in every score record f1 is the harmonic mean of its precision and
\* recall, 2pr / (p + r), and 0 when both are 0.
C6_F1HarmonicMean ==
    (call.op = "evaluate" /\ result.kind = "dict" /\ call.top_n > 0)
        => LET p == result.precision
               r == result.recall
               f == result.f1
           IN  IF p.num = 0 /\ r.num = 0 THEN f.num = 0
               ELSE f.num * (p.num * r.den + r.num * p.den)
                        = 2 * p.num * r.num * f.den

\* C7: an evaluation of an item found in the catalog never fails on a
\* division by zero, and reports f1 = 0 when precision and recall are 0.
C7_NoDivisionByZero ==
    (call.op = "evaluate" /\ call.ranker /\ call.top_n > 0)
        => /\ ~(result.kind = "raise" /\ result.exc = "ZeroDivisionError")
           /\ (result.kind = "dict" /\ result.precision.num = 0
                 /\ result.recall.num = 0) => result.f1.num = 0

\* The query item of the harness: the first row with exactly the name.
QueryPos == CHOOSE i \in 1..Len(data) :
    data[i].Name = Query.val /\ \A j \in 1..(i - 1) : data[j].Name # Query.val

\* The rows sharing the query item's category, the query item excluded.
Relevant ==
    { i \in 1..Len(data) :
        i # QueryPos /\ cell_eq(data[i].Category, data[QueryPos].Category) }

Retrieved == { i \in 1..Len(data) : display(data[i]) \in RowsOf(result.recs) }

\* C8: precision is |retrieved /\ relevant| / top_n and recall is
\* |retrieved /\ relevant| / |relevant| (0 for an empty relevance set), the
\* relevance set being the rows that share the query item's category, the
\* query item excluded.
C8_PrecisionRecall ==
    (call.op = "evaluate" /\ result.kind = "dict" /\ call.top_n > 0)
        => LET hits == Cardinality(Retrieved \cap Relevant)
               size == Cardinality(Relevant)
               p == result.precision
               r == result.recall
           IN  /\ p.num * call.top_n = hits * p.den
               /\ IF size = 0 THEN r.num = 0
                  ELSE r.num * size = hits * r.den

\* C9: when no row has a tag word and the query matches a name, the ranker
\* raises nothing and returns the rows after the first in catalog order.
C9_AllEmptyTagsStableOrder ==
    (AnchorResolved /\ LiteralQuery /\ AllTagsEmpty /\ call.top_n >= 0)
        => /\ Returned
           /\ \A i, j \in 1..Len(Frame) : score_zero(SimTo(i)[j])
           /\ Recs.rows =
                [k \in 1..Min(call.top_n, Len(Frame) - 1) |-> display(Frame[k + 1])]

\* C10: when the harness reaches the ranker, the anchor the ranker resolves
\* is the row the harness looked up by exact name, and that row is not among
\* the rows that are scored.
C10_AnchorIsQueryItem ==
    (call.op = "evaluate" /\ call.ranker
        /\ Recs.step \in {"vectorizer", "lookup", "done"})
        => /\ Recs.item_index = data[QueryPos].index
           /\ display(data[QueryPos]) \notin RowsOf(Recs)

====
